---- MODULE Spec2Model ----
(***************************************************************************)
(* Model of app.py, the Streamlit action-plan dashboard: load_data (the    *)
(* column-name normalisation and the date coercion), the two sidebar       *)
(* filters, the summary metrics, today's actions, the daily detail list    *)
(* and the two charts.                                                     *)
(*                                                                         *)
(* A str is a tuple of one-character strings where the code works on its   *)
(* characters (column labels).  Cell texts are TLA+ strings; Chars gives   *)
(* the characters of those the code searches in.                           *)
(*                                                                         *)
(* A DataFrame is [columns |-> tuple of labels, rows |-> tuple of rows],   *)
(* a row being the tuple of its cells in column order.  A cell is          *)
(* [k |-> "null"], [k |-> "date", v |-> day number], [k |-> "text",        *)
(* v |-> string] or [k |-> "num", v |-> integer].                          *)
(***************************************************************************)
EXTENDS Integers, Sequences, FiniteSets, TLC

\* ------------------------------------------------------------------ bounds

\* Most rows of an uploaded sheet.
MaxRows == 2

\* Longest raw column label of the label specification.
MaxLabelLen == 5

\* Most distinct focus values of the focus-chart specification.
MaxFocusValues == 12

\* ------------------------------------------------------------- characters

UpperChars == <<"A","B","C","D","E","F","G","H","I","J","K","L","M",
                "N","O","P","Q","R","S","T","U","V","W","X","Y","Z">>

LowerChars == <<"a","b","c","d","e","f","g","h","i","j","k","l","m",
                "n","o","p","q","r","s","t","u","v","w","x","y","z">>

Digits == {"0","1","2","3","4","5","6","7","8","9"}

Range(s) == {s[i] : i \in DOMAIN s}

\* str.lower() on one character: A-Z go to a-z, the accented capitals of the
\* model to their small letters, everything else stays.
char_lower(c) ==
    IF \E i \in DOMAIN UpperChars : UpperChars[i] = c
    THEN LowerChars[CHOOSE i \in DOMAIN UpperChars : UpperChars[i] = c]
    ELSE IF c = "Á" THEN "á" ELSE IF c = "Ç" THEN "ç" ELSE c

str_lower(s) == [i \in DOMAIN s |-> char_lower(s[i])]

\* The character class [a-z0-9] of the first replace.
InClass(c) == c \in Range(LowerChars) \cup Digits

\* .str.replace('[^a-z0-9]', '_', regex=True)
replace_non_alnum(s) == [i \in DOMAIN s |-> IF InClass(s[i]) THEN s[i] ELSE "_"]

\* Variant of collapse_underscores: .str.replace('__', '_'), each pair of
\* underscores replaced once, left to right.
RECURSIVE collapse_underscores_pairwise(_)
collapse_underscores_pairwise(s) ==
    IF Len(s) <= 1 THEN s
    ELSE IF s[1] = "_" /\ s[2] = "_"
    THEN <<"_">> \o collapse_underscores_pairwise(Tail(Tail(s)))
    ELSE <<s[1]>> \o collapse_underscores_pairwise(Tail(s))

\* .str.replace(r'_{2,}', '_', regex=True): every maximal run of two or more
\* underscores becomes one underscore.
RECURSIVE collapse_underscores(_)
collapse_underscores(s) ==
    IF Len(s) <= 1 THEN s
    ELSE IF s[1] = "_" /\ s[2] = "_" THEN collapse_underscores(Tail(s))
    ELSE <<s[1]>> \o collapse_underscores(Tail(s))

RECURSIVE lstrip_underscores(_)
lstrip_underscores(s) ==
    IF s # <<>> /\ s[1] = "_" THEN lstrip_underscores(Tail(s)) ELSE s

RECURSIVE rstrip_underscores(_)
rstrip_underscores(s) ==
    IF s # <<>> /\ s[Len(s)] = "_"
    THEN rstrip_underscores(SubSeq(s, 1, Len(s) - 1))
    ELSE s

\* .str.strip('_')
strip_underscores(s) == rstrip_underscores(lstrip_underscores(s))

\* The three assignments to df.columns, on one label.
normalize_key(label) ==
    strip_underscores(collapse_underscores(replace_non_alnum(str_lower(label))))

\* The column names the script looks up.
KEY_data == <<"d","a","t","a">>

KEY_dia_da_semana == <<"d","i","a","_","d","a","_","s","e","m","a","n","a">>

KEY_foco == <<"f","o","c","o","_","p","r","i","n","c","i","p","a","l","_",
              "d","o","_","d","i","a">>

\* ------------------------------------------------------------------ cells

Null == [k |-> "null"]

Date(d) == [k |-> "date", v |-> d]

Text(s) == [k |-> "text", v |-> s]

Num(n) == [k |-> "num", v |-> n]

\* NaT, the missing datetime.
NaT == Null

\* pd.notna / the complement of isna
notna(c) == c.k # "null"

\* The day numbers of the model: 1 is 2024-01-01, 2 is 2024-01-02.
Days == {1, 2}

\* pd.to_datetime(..., errors='coerce') on one cell: a datetime stays, a text
\* in a date format is parsed, anything else becomes NaT.
to_datetime_cell(c) ==
    IF c.k = "date" THEN c
    ELSE IF c.k = "text" /\ c.v = "2024-01-01" THEN Date(1)
    ELSE IF c.k = "text" /\ c.v = "2024-01-02" THEN Date(2)
    ELSE NaT

\* ------------------------------------------------------------- DataFrames

\* pd.DataFrame()
EmptyDataFrame == [columns |-> <<>>, rows |-> <<>>]

\* df.empty: no row or no column.
empty(df) == Len(df.rows) = 0 \/ Len(df.columns) = 0

\* The positions of the columns called key.
Positions(df, key) == {i \in DOMAIN df.columns : df.columns[i] = key}

\* key in df.columns
has_column(df, key) == Positions(df, key) # {}

\* df[key] is a Series only when exactly one column is called key; with two
\* it is a DataFrame, which has none of .unique, .str, .dt.
is_series(df, key) == Cardinality(Positions(df, key)) = 1

ColPos(df, key) == CHOOSE i \in Positions(df, key) : TRUE

\* The cells of the Series df[key], in row order.
Column(df, key) == [r \in DOMAIN df.rows |-> df.rows[r][ColPos(df, key)]]

\* The elements of s at the positions where mask is TRUE, in order.
RECURSIVE Select(_, _)
Select(s, mask) ==
    IF s = <<>> THEN <<>>
    ELSE Select(SubSeq(s, 1, Len(s) - 1), mask)
           \o (IF mask[Len(s)] THEN <<s[Len(s)]>> ELSE <<>>)

\* df[mask]: the rows where the boolean Series mask is True, in order, as a
\* new frame.
boolean_index(df, mask) ==
    [columns |-> df.columns, rows |-> Select(df.rows, mask)]

\* ---------------------------------------------------------------- load_data

\* What the uploader hands to load_data: a sheet read_excel can read, or bytes
\* it cannot.
Sheet(table) == [k |-> "sheet", table |-> table]

Corrupt(cause) == [k |-> "corrupt", cause |-> cause]

NoError == "none"

\* df['data'] = pd.to_datetime(df['data'], errors='coerce')
coerce_data(df) ==
    LET p == ColPos(df, KEY_data)
    IN  [columns |-> df.columns,
         rows |-> [r \in DOMAIN df.rows |->
                     [df.rows[r] EXCEPT ![p] = to_datetime_cell(df.rows[r][p])]]]

\* df.dropna(subset=['data'], inplace=True)
dropna_data(df) ==
    LET p == ColPos(df, KEY_data)
    IN  boolean_index(df, [r \in DOMAIN df.rows |-> notna(df.rows[r][p])])

\* df.columns after the three assignments.
normalize_columns(table) ==
    [columns |-> [i \in DOMAIN table.columns |-> normalize_key(table.columns[i])],
     rows |-> table.rows]

\* load_data on a table read_excel returned.  With two columns called 'data',
\* df['data'] is a DataFrame and pd.to_datetime raises ValueError, which the
\* except clause turns into st.error and an empty DataFrame.
normalize(table) ==
    LET df == normalize_columns(table)
    IN  IF ~has_column(df, KEY_data)
        THEN [df |-> df, error |-> NoError, warning |-> TRUE]
        ELSE IF ~is_series(df, KEY_data)
        THEN [df |-> EmptyDataFrame,
              error |-> "cannot assemble with duplicate keys",
              warning |-> FALSE]
        ELSE [df |-> dropna_data(coerce_data(df)), error |-> NoError,
              warning |-> FALSE]

\* Variant of load_data: the except clause reports no cause.
load_data_no_cause(file) ==
    [normalize(IF file.k = "corrupt" THEN EmptyDataFrame ELSE file.table)
        EXCEPT !.error = NoError]

\* load_data(file_path): read_excel raising is caught the same way.
load_data(file) ==
    IF file.k = "corrupt"
    THEN [df |-> EmptyDataFrame, error |-> file.cause, warning |-> FALSE]
    ELSE normalize(file.table)

\* ------------------------------------------------------- Series operations

\* The distinct cells of a column in order of first appearance (NaN included).
RECURSIVE unique(_)
unique(col) ==
    IF col = <<>> THEN <<>>
    ELSE LET init == unique(SubSeq(col, 1, Len(col) - 1))
             last == col[Len(col)]
         IN  IF last \in Range(init) THEN init ELSE Append(init, last)

\* How many cells of the column equal c.
CountOf(col, c) == Cardinality({i \in DOMAIN col : col[i] = c})

\* s sorted by ascending key (key[i] the integer key of s[i]), elements of
\* equal key in their order in s.
StableSort(s, key) ==
    LET Rank(i) == 1 + Cardinality({j \in DOMAIN s :
                        key[j] < key[i] \/ (key[j] = key[i] /\ j < i)})
    IN  [n \in DOMAIN s |-> s[CHOOSE i \in DOMAIN s : Rank(i) = n]]

\* Series.value_counts(): the non-null values with their counts, the larger
\* count first, equal counts in order of first appearance (the order the
\* sort leaves them in for the sizes of the model).
value_counts(col) ==
    LET u == unique(col)
        vals == Select(u, [i \in DOMAIN u |-> notna(u[i])])
        entries == [i \in DOMAIN vals |->
                      [value |-> vals[i], count |-> CountOf(col, vals[i])]]
    IN  StableSort(entries, [i \in DOMAIN entries |-> 0 - entries[i].count])

\* Series.nunique(): the number of distinct non-null values.
nunique(col) == Cardinality({c \in Range(col) : notna(c)})

\* .head(n)
head(s, n) == SubSeq(s, 1, IF Len(s) < n THEN Len(s) ELSE n)

\* focus_counts.head(10)
TopFocos == 10

day_order == <<"Domingo", "Segunda-feira", "Terça-feira", "Quarta-feira",
               "Quinta-feira", "Sexta-feira", "Sábado">>

\* Variant of reindex_fillna: without fillna(0), a day with no row has no bar.
reindex_no_fillna(counts, order) ==
    LET present == [i \in DOMAIN order |->
                      \E j \in DOMAIN counts : counts[j].value = Text(order[i])]
        days == Select(order, present)
    IN  [i \in DOMAIN days |->
           [value |-> Text(days[i]),
            count |-> counts[CHOOSE j \in DOMAIN counts :
                               counts[j].value = Text(days[i])].count]]

\* counts.reindex(day_order).fillna(0): one entry per label of day_order, in
\* that order, 0 for a label value_counts does not have.
reindex_fillna(counts, order) ==
    [i \in DOMAIN order |->
        [value |-> Text(order[i]),
         count |-> IF \E j \in DOMAIN counts : counts[j].value = Text(order[i])
                   THEN counts[CHOOSE j \in DOMAIN counts :
                                 counts[j].value = Text(order[i])].count
                   ELSE 0]]

\* df.sort_values(by='data', ascending=True): the rows by date, rows of one
\* date in their order.
sort_values_data(df) ==
    LET p == ColPos(df, KEY_data)
    IN  [columns |-> df.columns,
         rows |-> StableSort(df.rows, [r \in DOMAIN df.rows |-> df.rows[r][p].v])]

\* ------------------------------------------------------------- the filters

\* Variant of isin_filter: a missing weekday matches no selection.
isin_filter_notna(df, selected) ==
    LET col == Column(df, KEY_dia_da_semana)
    IN  boolean_index(df, [r \in DOMAIN col |->
                                notna(col[r]) /\ col[r] \in selected])

\* df[df['dia_da_semana'].isin(selected_days)]
isin_filter(df, selected) ==
    LET col == Column(df, KEY_dia_da_semana)
    IN  boolean_index(df, [r \in DOMAIN col |-> col[r] \in selected])

\* The characters of the texts the keyword search reads.
Chars(s) ==
    CASE s = "" -> <<>>
      [] s = "Plano" -> <<"P","l","a","n","o">>
      [] s = "Pausa" -> <<"P","a","u","s","a">>
      [] s = "nan" -> <<"n","a","n">>
      [] s = "42" -> <<"4","2">>
      [] s = "42.0" -> <<"4","2",".","0">>
      [] s = "pl" -> <<"p","l">>
      [] s = "PL" -> <<"P","L">>
      [] s = "a" -> <<"a">>
      [] s = "4" -> <<"4">>

\* A column of numbers and NaN only is float64; with a text in it, object.
is_float(col) ==
    /\ \A i \in DOMAIN col : col[i].k \in {"num", "null"}
    /\ \E i \in DOMAIN col : col[i].k = "null"

\* .astype(str) on one cell of the column: NaN becomes the text 'nan' (pandas
\* before 3.0, where astype(str) is str() of each element), a number its
\* digits, with '.0' in a float64 column.
astype_str(c, col) ==
    IF c.k = "text" THEN c
    ELSE IF c.k = "null" THEN Text("nan")
    ELSE IF is_float(col) THEN Text("42.0") ELSE Text("42")

\* needle occurs in hay
Contains(hay, needle) ==
    \E i \in 0..(Len(hay) - Len(needle)) :
        SubSeq(hay, i + 1, i + Len(needle)) = needle

\* .str.contains(pat, case=False, na=False) on one cell, for a pattern of
\* letters and digits: a missing value gives na, a text is searched with the
\* case of both sides ignored.
str_contains(c, pat) ==
    IF c.k = "null" THEN FALSE
    ELSE Contains(str_lower(Chars(c.v)), str_lower(Chars(pat)))

\* df_filtered[df_filtered['foco_principal_do_dia'].astype(str)
\*     .str.contains(search_focus, case=False, na=False)]
contains_filter(df, pat) ==
    LET col == Column(df, KEY_foco)
    IN  boolean_index(df, [r \in DOMAIN col |->
                                str_contains(astype_str(col[r], col), pat)])

\* --------------------------------------------------------- uploaded sheets

L_Dia == <<"D","i","a">>

L_Data == <<"D","a","t","a">>

L_DATA == <<"D","A","T","A">>

L_DiaDaSemana == <<"D","i","a"," ","d","a"," ","S","e","m","a","n","a">>

L_DiaDaSemanaHyphen == <<"d","i","a","-","d","a","-","s","e","m","a","n","a">>

L_Foco == <<"F","o","c","o"," ","P","r","i","n","c","i","p","a","l"," ",
            "d","o"," ","D","i","a">>

\* A sheet column: its header label and which field of a sheet row fills it.
Col(label, field) == [label |-> label, field |-> field]

BaseHeader == <<Col(L_Dia, "dia"), Col(L_Data, "data"),
                Col(L_DiaDaSemana, "dia_da_semana"), Col(L_Foco, "foco")>>

\* The headers of the model: 'Dia' with every subset of the three optional
\* columns, and two sheets in which two labels differ only in case or
\* punctuation.
Headers ==
    {Select(BaseHeader, [i \in 1..4 |-> i = 1 \/ BaseHeader[i].field \in S]) :
        S \in SUBSET {"data", "dia_da_semana", "foco"}}
    \cup {BaseHeader \o <<Col(L_DATA, "data2")>>,
          BaseHeader \o <<Col(L_DiaDaSemanaHyphen, "dia_da_semana2")>>}

SheetRow(data, dia_da_semana, foco) ==
    [dia |-> Num(1), data |-> data, dia_da_semana |-> dia_da_semana,
     foco |-> foco, data2 |-> Date(1), dia_da_semana2 |-> Text("Sábado")]

\* The rows a sheet of the model is made of.
RowPool ==
    {SheetRow(Date(2), Text("Segunda-feira"), Text("Plano")),
     SheetRow(Text("2024-01-01"), Text("Terça-feira"), Text("Pausa")),
     SheetRow(Text("not-a-date"), Text("Segunda-feira"), Null),
     SheetRow(Null, Text("Feriado"), Text("Plano")),
     SheetRow(Date(1), Null, Num(42))}

RowSeqs == UNION {[1..n -> RowPool] : n \in 0..MaxRows}

\* The table read_excel returns for a header and rows.
RawTable(header, rs) ==
    [columns |-> [i \in DOMAIN header |-> header[i].label],
     rows |-> [r \in DOMAIN rs |->
                 [i \in DOMAIN header |-> rs[r][header[i].field]]]]

Uploads ==
    {Sheet(RawTable(h, rs)) : h \in Headers, rs \in RowSeqs}
    \cup {Corrupt("File is not a zip file")}

\* What the user can type in the keyword box.
Keywords == {"", "pl", "PL", "a", "4"}

\* -------------------------------------------------------------- the script

VARIABLES
    uploaded_file,    \* st.file_uploader's value
    cache,            \* st.cache_data's entry for load_data(uploaded_file)
    pc,               \* where the script run is
    frames,           \* the DataFrame objects of the run, by the statement that made them
    df,               \* the names df, df_filtered, df_display: which object each is bound to
    df_filtered,
    df_display,
    widgets,          \* the sidebar widgets rendered so far in the session
    selected_days,    \* the multiselect's value
    search_focus,     \* the text input's value
    st_error,         \* the cause st.error showed, if any
    no_data,          \* the "Nenhum dado foi carregado" warning was shown
    summary,          \* the three metrics of the summary row
    acoes_hoje,       \* today's actions
    focus_counts,     \* the bars of the focus chart
    day_counts,       \* the bars of the weekday chart
    exception         \* the exception that ended the run, if any

vars == <<uploaded_file, cache, pc, frames, df, df_filtered, df_display, widgets,
          selected_days, search_focus, st_error, no_data, summary, acoes_hoje,
          focus_counts, day_counts, exception>>

None == [k |-> "none"]

\* A metric or section replaced by an st.info placeholder.
Unavailable == [k |-> "unavailable"]

\* The bars handed to px.bar: (value, count) pairs in drawing order.
Bars(entries) == [k |-> "bars", bars |-> entries]

\* The rows of acoes_hoje.
Rows(rows) == [k |-> "rows", rows |-> rows]

Unbound == "unbound"

NoFrames == [f \in {"loaded", "by_day", "by_focus", "sorted"} |-> None]

\* The frame a name is bound to.
Frame(name) == frames[name]

\* A script run starts with no local bound and nothing rendered.
StartRun ==
    /\ pc' = "load"
    /\ frames' = NoFrames
    /\ df' = Unbound
    /\ df_filtered' = Unbound
    /\ df_display' = Unbound
    /\ st_error' = NoError
    /\ no_data' = FALSE
    /\ summary' = None
    /\ acoes_hoje' = None
    /\ focus_counts' = None
    /\ day_counts' = None
    /\ exception' = NoError

Init ==
    /\ uploaded_file = None
    /\ cache = None
    /\ pc = "idle"
    /\ frames = NoFrames
    /\ df = Unbound
    /\ df_filtered = Unbound
    /\ df_display = Unbound
    /\ widgets = {}
    /\ selected_days = {}
    /\ search_focus = ""
    /\ st_error = NoError
    /\ no_data = FALSE
    /\ summary = None
    /\ acoes_hoje = None
    /\ focus_counts = None
    /\ day_counts = None
    /\ exception = NoError

\* The user uploads a file: the script runs.
UploadFrom(files) ==
    /\ pc = "idle"
    /\ \E file \in files : uploaded_file' = file
    /\ StartRun
    /\ UNCHANGED <<cache, widgets, selected_days, search_focus>>

Upload == UploadFrom(Uploads)

\* df = load_data(uploaded_file), memoised by st.cache_data, which hands out
\* a copy of the cached value; then the df.empty test.
LoadData ==
    /\ pc = "load"
    /\ LET res == IF cache = None THEN load_data(uploaded_file) ELSE cache
       IN  /\ cache' = res
           /\ frames' = [frames EXCEPT !["loaded"] = res.df]
           /\ df' = "loaded"
           /\ st_error' = res.error
           /\ no_data' = empty(res.df)
           /\ pc' = IF empty(res.df) THEN "done" ELSE "weekday_filter"
    /\ UNCHANGED <<uploaded_file, df_filtered, df_display, widgets, selected_days,
                   search_focus, summary, acoes_hoje, focus_counts, day_counts,
                   exception>>

\* The run ends with an uncaught exception: Streamlit shows it and stops.
Raise(e) ==
    /\ exception' = e
    /\ pc' = "raised"

\* all_days = df['dia_da_semana'].unique().tolist()
all_days(d) == Range(unique(Column(d, KEY_dia_da_semana)))

\* Filtro por Dia da Semana.  The multiselect shows its default, all_days, the
\* first time it is rendered and the user's selection afterwards.
WeekdayFilter ==
    /\ pc = "weekday_filter"
    /\ LET d == Frame(df)
       IN  IF has_column(d, KEY_dia_da_semana)
           THEN IF ~is_series(d, KEY_dia_da_semana)
                THEN /\ Raise("AttributeError: 'DataFrame' object has no attribute 'unique'")
                     /\ UNCHANGED <<frames, df_filtered, widgets, selected_days>>
                ELSE LET sel == IF "multiselect" \in widgets
                                THEN selected_days ELSE all_days(d)
                     IN  /\ widgets' = widgets \cup {"multiselect"}
                         /\ selected_days' = sel
                         /\ IF sel # {}
                            THEN /\ frames' = [frames EXCEPT
                                                 !["by_day"] = isin_filter(d, sel)]
                                 /\ df_filtered' = "by_day"
                            ELSE /\ frames' = frames
                                 /\ df_filtered' = df
                         /\ pc' = "focus_filter"
                         /\ UNCHANGED exception
           ELSE /\ df_filtered' = df
                /\ pc' = "focus_filter"
                /\ UNCHANGED <<frames, widgets, selected_days, exception>>
    /\ UNCHANGED <<uploaded_file, cache, df, df_display, search_focus, st_error,
                   no_data, summary, acoes_hoje, focus_counts, day_counts>>

\* Filtro por Foco Principal.
FocusFilter ==
    /\ pc = "focus_filter"
    /\ IF has_column(Frame(df), KEY_foco)
       THEN /\ widgets' = widgets \cup {"text_input"}
            /\ IF search_focus # ""
               THEN IF ~is_series(Frame(df_filtered), KEY_foco)
                    THEN /\ Raise("AttributeError: 'DataFrame' object has no attribute 'str'")
                         /\ UNCHANGED <<frames, df_filtered>>
                    ELSE /\ frames' = [frames EXCEPT !["by_focus"] =
                                contains_filter(Frame(df_filtered), search_focus)]
                         /\ df_filtered' = "by_focus"
                         /\ pc' = "summary"
                         /\ UNCHANGED exception
               ELSE /\ pc' = "summary"
                    /\ UNCHANGED <<frames, df_filtered, exception>>
       ELSE /\ pc' = "summary"
            /\ UNCHANGED <<frames, df_filtered, widgets, exception>>
    /\ UNCHANGED <<uploaded_file, cache, df, df_display, selected_days,
                   search_focus, st_error, no_data, summary, acoes_hoje,
                   focus_counts, day_counts>>

\* frequencia_dias.index[0] if not frequencia_dias.empty else "N/A"
top_weekday(f) ==
    LET frequencia_dias == value_counts(Column(f, KEY_dia_da_semana))
    IN  IF frequencia_dias = <<>> THEN Text("N/A") ELSE frequencia_dias[1].value

\* The three metrics of "Resumo do Plano de Ação".
metrics(f) ==
    [total_registros |-> Len(f.rows),
     top_weekday |-> IF has_column(f, KEY_dia_da_semana)
                     THEN top_weekday(f) ELSE Unavailable,
     distinct_focus |-> IF has_column(f, KEY_foco)
                        THEN Num(nunique(Column(f, KEY_foco))) ELSE Unavailable]

Summary ==
    /\ pc = "summary"
    /\ summary' = metrics(Frame(df_filtered))
    /\ pc' = "today"
    /\ UNCHANGED <<uploaded_file, cache, frames, df, df_filtered, df_display,
                   widgets, selected_days, search_focus, st_error, no_data,
                   acoes_hoje, focus_counts, day_counts, exception>>

\* df_filtered[df_filtered['data'].dt.date == hoje]
todays_rows(f, hoje) ==
    LET col == Column(f, KEY_data)
    IN  boolean_index(f, [r \in DOMAIN col |-> col[r] = Date(hoje)]).rows

\* Ações e Metas para Hoje; hoje is the day the script runs on.
TodayActions ==
    /\ pc = "today"
    /\ \E hoje \in Days :
         acoes_hoje' = IF has_column(Frame(df_filtered), KEY_data)
                       THEN Rows(todays_rows(Frame(df_filtered), hoje))
                       ELSE Unavailable
    /\ pc' = "detail"
    /\ UNCHANGED <<uploaded_file, cache, frames, df, df_filtered, df_display,
                   widgets, selected_days, search_focus, st_error, no_data,
                   summary, focus_counts, day_counts, exception>>

\* Variant of sort_values_result: sort_values(..., inplace=True) sorts the
\* object it is called on.
sort_values_inplace(name) == name

\* The object df_filtered.sort_values(by='data', ascending=True) returns: a
\* new DataFrame, the one it is called on being left as it is.
sort_values_result(name) == "sorted"

\* Detalhes Diários do Plano de Ação.
DailyDetail ==
    /\ pc = "detail"
    /\ LET f == Frame(df_filtered)
       IN  IF ~empty(f)
           THEN IF ~has_column(f, KEY_data)
                THEN /\ Raise("KeyError: 'data'")
                     /\ UNCHANGED <<frames, df_display>>
                ELSE /\ frames' = [frames EXCEPT
                            ![sort_values_result(df_filtered)] = sort_values_data(f)]
                     /\ df_display' = sort_values_result(df_filtered)
                     /\ pc' = "focus_chart"
                     /\ UNCHANGED exception
           ELSE /\ pc' = "focus_chart"
                /\ UNCHANGED <<frames, df_display, exception>>
    /\ UNCHANGED <<uploaded_file, cache, df, df_filtered, widgets, selected_days,
                   search_focus, st_error, no_data, summary, acoes_hoje,
                   focus_counts, day_counts>>

\* Variant of focus_histogram: every focus value is drawn.
focus_histogram_all(f) == value_counts(Column(f, KEY_foco))

\* df_filtered['foco_principal_do_dia'].value_counts().reset_index().head(10)
focus_histogram(f) == head(value_counts(Column(f, KEY_foco)), TopFocos)

\* Gráfico: Frequência de Foco Principal.
FocusChart ==
    /\ pc = "focus_chart"
    /\ LET f == Frame(df_filtered)
       IN  focus_counts' = IF has_column(f, KEY_foco) /\ ~empty(f)
                           THEN Bars(focus_histogram(f)) ELSE Unavailable
    /\ pc' = "weekday_chart"
    /\ UNCHANGED <<uploaded_file, cache, frames, df, df_filtered, df_display,
                   widgets, selected_days, search_focus, st_error, no_data,
                   summary, acoes_hoje, day_counts, exception>>

\* df_filtered['dia_da_semana'].value_counts().reindex(day_order).fillna(0)
weekday_histogram(f) ==
    reindex_fillna(value_counts(Column(f, KEY_dia_da_semana)), day_order)

\* Gráfico: Distribuição de Registros por Dia da Semana.
WeekdayChart ==
    /\ pc = "weekday_chart"
    /\ LET f == Frame(df_filtered)
       IN  day_counts' = IF has_column(f, KEY_dia_da_semana) /\ ~empty(f)
                         THEN Bars(weekday_histogram(f)) ELSE Unavailable
    /\ pc' = "done"
    /\ UNCHANGED <<uploaded_file, cache, frames, df, df_filtered, df_display,
                   widgets, selected_days, search_focus, st_error, no_data,
                   summary, acoes_hoje, focus_counts, exception>>

\* The user changes a sidebar widget that was rendered: the script runs again.
\* The multiselect offers all_days, the text input any keyword.
ChangeFilter ==
    /\ pc \in {"done", "raised"}
    /\ widgets # {}
    /\ \E days \in (IF "multiselect" \in widgets
                     THEN SUBSET all_days(cache.df) ELSE {selected_days}),
          kw \in (IF "text_input" \in widgets THEN Keywords ELSE {search_focus}) :
         /\ <<days, kw>> # <<selected_days, search_focus>>
         /\ selected_days' = days
         /\ search_focus' = kw
    /\ StartRun
    /\ UNCHANGED <<uploaded_file, cache, widgets>>

Next ==
    \/ Upload
    \/ LoadData
    \/ WeekdayFilter
    \/ FocusFilter
    \/ Summary
    \/ TodayActions
    \/ DailyDetail
    \/ FocusChart
    \/ WeekdayChart
    \/ ChangeFilter

Spec == Init /\ [][Next]_vars

\* ------------------------------------------- load_data on generated labels

\* The characters the generated labels are made of: a capital, small letters
\* and one character outside [a-z0-9].
LabelChars == {"D", "a", "t", " "}

Labels == UNION {[1..n -> LabelChars] : n \in 1..MaxLabelLen}

\* The cells under a generated label.
LabelCells == {Text("2024-01-01"), Text("not-a-date")}

LabelUploads ==
    {Sheet([columns |-> <<l>>, rows |-> [r \in DOMAIN cs |-> <<cs[r]>>]]) :
        l \in Labels, cs \in UNION {[1..n -> LabelCells] : n \in 0..MaxRows}}

UploadLabel == UploadFrom(LabelUploads)

NextLabel ==
    \/ UploadLabel
    \/ LoadData

SpecLabel == Init /\ [][NextLabel]_vars

\* ------------------------------------------- the charts on a longer sheet

\* A sheet of 'Data' and 'Foco Principal do Dia' whose focus column holds the
\* values 1..n once each, in rising or falling order, and then the cells of
\* more.
FocusSheet(n, rising, more) ==
    LET col == [i \in 1..n |-> Num(IF rising THEN i ELSE n + 1 - i)] \o more
    IN  Sheet([columns |-> <<L_Data, L_Foco>>,
               rows |-> [r \in DOMAIN col |-> <<Date(1), col[r]>>]])

FocusUploads ==
    {FocusSheet(n, rising, more) :
        n \in 1..MaxFocusValues, rising \in BOOLEAN,
        more \in UNION {[1..m -> {Num(1), Num(2), Num(MaxFocusValues), Null}] :
                           m \in 0..MaxRows}}

UploadFocus == UploadFrom(FocusUploads)

NextFocus ==
    \/ UploadFocus
    \/ LoadData
    \/ WeekdayFilter
    \/ FocusFilter
    \/ Summary
    \/ TodayActions
    \/ DailyDetail
    \/ FocusChart
    \/ WeekdayChart

SpecFocus == Init /\ [][NextFocus]_vars

\* ------------------------------------------------------------------ claims

\* The run has bound df_filtered and applied both filters.
Filtered ==
    /\ df_filtered # Unbound
    /\ pc \in {"summary", "today", "detail", "focus_chart", "weekday_chart",
               "done", "raised"}

\* The table the weekday filter handed to the keyword filter.
WeekdayFiltered ==
    IF frames["by_day"] # None THEN frames["by_day"] ELSE frames["loaded"]

\* No two columns of the frame have the same name.
UniqueColumns(d) ==
    \A i, j \in DOMAIN d.columns : d.columns[i] = d.columns[j] => i = j

RECURSIVE SumCounts(_)
SumCounts(h) ==
    IF h = <<>> THEN 0 ELSE h[1].count + SumCounts(Tail(h))

IsHistogram(h) == h.k = "bars"

\* C1: with any of the optional columns data, dia_da_semana,
\* foco_principal_do_dia absent, a pass over the canonical table never ends in
\* an exception: every output is a value or a placeholder.
C1_PassNeverAborts ==
    (cache # None /\ UniqueColumns(cache.df)) => exception = NoError

\* The rows C2 expects of load_data: with a 'data' column, the rows whose
\* date cell parses, the cell parsed; without one, every row.
C2_ExpectedRows(t) ==
    IF ~has_column(t, KEY_data) THEN t.rows
    ELSE LET p == CHOOSE i \in Positions(t, KEY_data) :
                      \A j \in Positions(t, KEY_data) : j <= i
             parsed == [r \in DOMAIN t.rows |->
                          [t.rows[r] EXCEPT ![p] = to_datetime_cell(t.rows[r][p])]]
         IN  Select(parsed, [r \in DOMAIN parsed |-> notna(parsed[r][p])])

\* C2: load_data only drops rows: with a 'data' column the rows of the result
\* are exactly the rows of the sheet whose date parses, in their order;
\* without one every row is kept; so the result never has more rows.
C2_OnlyUnparsableRowsDropped ==
    (cache # None /\ uploaded_file.k = "sheet") =>
        /\ cache.df.rows = C2_ExpectedRows(normalize_columns(uploaded_file.table))
        /\ Len(cache.df.rows) <= Len(uploaded_file.table.rows)

\* C3: the column-key transform is idempotent, and so is load_data's
\* normalisation of a table: applied to its own result it changes nothing.
C3_NormalizeIdempotent ==
    cache # None =>
        /\ \A i \in DOMAIN cache.df.columns :
              normalize_key(cache.df.columns[i]) = cache.df.columns[i]
        /\ normalize(cache.df).df = cache.df

\* C3's case: a label the transform changes into 'data', a text cell parsed
\* into a date and a row dropped.
C3_Witness ==
    /\ cache # None
    /\ uploaded_file.table.columns[1] # KEY_data
    /\ cache.df.columns[1] = KEY_data
    /\ Len(cache.df.rows) = 1
    /\ Len(uploaded_file.table.rows) = 2
    /\ cache.df.rows[1][1] = Date(1)

\* C4: with a keyword, a row of the weekday-filtered table is kept exactly
\* when its focus is a text containing the keyword, case ignored; a missing or
\* non-text focus never matches; keywords differing in case give the same
\* table; no keyword excludes no row.
C4_KeywordKeepsOnlyMatchingText ==
    (Filtered /\ exception = NoError /\ has_column(Frame(df), KEY_foco)) =>
        LET w == WeekdayFiltered
            col == Column(w, KEY_foco)
            Match(c, kw) == /\ c.k = "text"
                            /\ Contains(str_lower(Chars(c.v)), str_lower(Chars(kw)))
        IN  /\ search_focus = "" => Frame(df_filtered) = w
            /\ search_focus # "" =>
                  /\ Frame(df_filtered).rows =
                        Select(w.rows, [r \in DOMAIN col |-> Match(col[r], search_focus)])
                  /\ \A kw \in Keywords :
                        str_lower(Chars(kw)) = str_lower(Chars(search_focus)) =>
                            contains_filter(w, kw) = Frame(df_filtered)

\* C5: with a 'dia_da_semana' column, an empty selection keeps every row (and
\* with no keyword the filtered table is the canonical table); a non-empty
\* selection keeps exactly the rows whose weekday is selected, in their order.
C5_WeekdayFilterSelectAll ==
    (df_filtered # Unbound /\ has_column(Frame(df), KEY_dia_da_semana)) =>
        LET d == Frame(df)
            col == Column(d, KEY_dia_da_semana)
            w == IF pc = "focus_filter" THEN Frame(df_filtered) ELSE WeekdayFiltered
        IN  /\ selected_days = {} =>
                  /\ w = d
                  /\ (Filtered /\ search_focus = "") => Frame(df_filtered) = d
            /\ selected_days # {} =>
                  /\ frames["by_day"] # None
                  /\ w = [columns |-> d.columns,
                          rows |-> Select(d.rows,
                                     [r \in DOMAIN col |-> col[r] \in selected_days])]

\* C5's case: the user has emptied the multiselect and both rows are shown.
C5_Witness ==
    /\ pc = "done"
    /\ "multiselect" \in widgets
    /\ selected_days = {}
    /\ search_focus = ""
    /\ Len(Frame(df_filtered).rows) = 2
    /\ Cardinality(all_days(Frame(df))) = 2

\* The labels of day_order.
DayLabels == {Text(day_order[i]) : i \in DOMAIN day_order}

\* The weekday chart has the seven days of day_order, in order, each day with
\* the number of rows of f on that day.
C6_SevenDays(h, f) ==
    LET col == Column(f, KEY_dia_da_semana)
    IN  /\ IsHistogram(h)
        /\ Len(h.bars) = 7
        /\ \A i \in 1..7 : /\ h.bars[i].value = Text(day_order[i])
                            /\ h.bars[i].count = CountOf(col, Text(day_order[i]))
                            /\ h.bars[i].count >= 0
        /\ SumCounts(h.bars) <= Len(f.rows)
        /\ (\A r \in DOMAIN col : col[r] \in DayLabels) =>
              SumCounts(h.bars) = Len(f.rows)

\* C6 as stated: for any filtered table with a 'dia_da_semana' column, the
\* empty one included, weekday_histogram has the seven entries.
C6_HistogramForAnyTable ==
    (pc = "done" /\ df_filtered # Unbound
        /\ has_column(Frame(df_filtered), KEY_dia_da_semana)) =>
        C6_SevenDays(day_counts, Frame(df_filtered))

\* C6 as amended: whenever the weekday chart is built, which is only for a
\* non-empty filtered table, it has exactly the seven days of day_order, in
\* order, a day without rows at 0, the counts summing to at most the number
\* of rows (to exactly that when every weekday is one of the seven); at the
\* end of a pass over an empty filtered table no histogram was built and a
\* placeholder is shown, and over a non-empty one it was built.
C6_HistogramForNonEmptyTable ==
    /\ IsHistogram(day_counts) =>
          /\ C6_SevenDays(day_counts, Frame(df_filtered))
          /\ ~empty(Frame(df_filtered))
    /\ (pc = "done" /\ df_filtered # Unbound
          /\ has_column(Frame(df_filtered), KEY_dia_da_semana)) =>
            IF empty(Frame(df_filtered))
            THEN day_counts = Unavailable
            ELSE IsHistogram(day_counts)

\* C6's case: a chart over rows of which one has a weekday outside day_order.
C6_Witness ==
    /\ pc = "done"
    /\ IsHistogram(day_counts)
    /\ SumCounts(day_counts.bars) = 1
    /\ Len(Frame(df_filtered).rows) = 2
    /\ day_counts.bars[7].count = 0

\* The run took the else branch of "if not df.empty": nothing below the
\* upload was computed or drawn.
NothingComputed ==
    /\ df_filtered = Unbound
    /\ summary = None
    /\ acoes_hoje = None
    /\ focus_counts = None
    /\ day_counts = None

\* C7 as stated: for a payload read_excel cannot read, the pass completes
\* with the metrics reported as 0 and "N/A".
C7_MetricsReportedForCorruptFile ==
    (uploaded_file.k = "corrupt" /\ pc = "done") =>
        summary = [total_registros |-> 0, top_weekday |-> Text("N/A"),
                   distinct_focus |-> Num(0)]

\* C7 as amended: for a payload read_excel cannot read, load_data shows the
\* error with its cause and returns an empty table, and the pass completes
\* without raising; it computes no metric, today's actions, detail list or
\* chart, and shows the "no data loaded" warning in their place.
C7_CorruptFileShowsNoData ==
    (uploaded_file.k = "corrupt" /\ pc # "load") =>
        /\ pc = "done"
        /\ exception = NoError
        /\ st_error = uploaded_file.cause
        /\ Frame(df) = EmptyDataFrame
        /\ no_data
        /\ NothingComputed

\* C7's case: the run over a corrupt upload has ended.
C7_Witness ==
    /\ uploaded_file.k = "corrupt"
    /\ pc = "done"
    /\ st_error = "File is not a zip file"

\* C8: the focus chart has at most 10 bars, in non-increasing order of count,
\* each bar the number of filtered rows with that focus, and no focus left
\* out has more rows than one that is shown.
C8_FocusHistogramTop10 ==
    IsHistogram(focus_counts) =>
        LET col == Column(Frame(df_filtered), KEY_foco)
            h == focus_counts.bars
            shown == {h[i].value : i \in DOMAIN h}
        IN  /\ Len(h) <= 10
            /\ \A i, j \in DOMAIN h :
                  /\ i < j => h[i].count >= h[j].count
                  /\ h[i].value = h[j].value => i = j
            /\ \A i \in DOMAIN h :
                  /\ notna(h[i].value)
                  /\ h[i].count = CountOf(col, h[i].value)
                  /\ h[i].count >= 1
            /\ \A c \in Range(col) \ shown :
                  notna(c) => \A i \in DOMAIN h : CountOf(col, c) <= h[i].count

\* C8's case: more than 10 distinct focus values, of unequal counts, cut to 10.
C8_Witness ==
    /\ IsHistogram(focus_counts)
    /\ Len(focus_counts.bars) = 10
    /\ nunique(Column(Frame(df_filtered), KEY_foco)) > 10
    /\ focus_counts.bars[1].count > focus_counts.bars[10].count
    /\ focus_counts.bars[1].value # Frame(df_filtered).rows[1][2]

\* C9: when two raw labels normalize to one key, the canonical table has one
\* column of that key, holding the later raw column; for the key 'data' the
\* load succeeds and the later column decides which rows are dropped.
C9_LaterColumnWins ==
    (cache # None /\ uploaded_file.k = "sheet") =>
        LET raw == uploaded_file.table
            t == normalize_columns(raw)
        IN  \A i, j \in DOMAIN t.columns :
              (i < j /\ t.columns[i] = t.columns[j]) =>
                /\ cache.error = NoError
                /\ is_series(cache.df, t.columns[j])
                /\ Len(cache.df.rows) = Len(C2_ExpectedRows(t))
                /\ \A r \in DOMAIN cache.df.rows :
                      cache.df.rows[r][ColPos(cache.df, t.columns[j])] =
                          C2_ExpectedRows(t)[r][j]

\* Both filters on a canonical table, as one function of the table and the
\* filter settings.
FilterOf(d, days, kw) ==
    LET w == IF has_column(d, KEY_dia_da_semana) /\ days # {}
             THEN isin_filter(d, days) ELSE d
    IN  IF has_column(d, KEY_foco) /\ kw # "" THEN contains_filter(w, kw) ELSE w

\* C10: throughout a session on one upload, whatever filters were set before,
\* the canonical table is load_data of the upload, unchanged by filtering,
\* summarising, sorting and charting, and the filtered table is a function of
\* the upload and the current filter settings alone.
C10_CanonicalTableUnchanged ==
    /\ df # Unbound =>
          /\ Frame(df) = load_data(uploaded_file).df
          /\ cache.df = load_data(uploaded_file).df
    /\ (Filtered /\ exception \in {NoError, "KeyError: 'data'"}) =>
          Frame(df_filtered) =
              FilterOf(load_data(uploaded_file).df, selected_days, search_focus)

\* C10's case: the user has emptied the multiselect, df_filtered is df itself
\* and the detail list is a sorted copy in another order.
C10_Witness ==
    /\ pc = "done"
    /\ "multiselect" \in widgets
    /\ selected_days = {}
    /\ df_filtered = df
    /\ df_display # Unbound
    /\ Frame(df_display).rows # Frame(df).rows

====
